---------------------------- MODULE Spec2Model ----------------------------
(***************************************************************************)
(* Model of podcast-rss-fetch: the pipeline driver (main.ts), the feed     *)
(* processor (rss-processor.ts) and the media downloader (downloader.ts)   *)
(* working against the relational store (db/schema) and object storage.    *)
(*                                                                         *)
(* The program is a command-line tool: every invocation is one run, in     *)
(* fetch mode or in download mode, and the store persists between runs.    *)
(* Strings are modelled as sequences of chunks where the code looks inside *)
(* them (feed bodies, enclosure URLs, episode keys); the empty string and  *)
(* null, which the code's `||` treats alike, are both the empty value.     *)
(***************************************************************************)
EXTENDS Integers, Sequences, FiniteSets, TLC

(***************************************************************************)
(* Bounds of the model.                                                    *)
(***************************************************************************)
MaxRuns == 3
MaxItems == 1
MaxLines == 2
MaxDepth == 2
MaxWidth == 2
MaxPending == 3
MaxSiblings == 3
ScaledLimit == 1

(***************************************************************************)
(* Program constants.                                                      *)
(***************************************************************************)
maxRetries == 3
ListLimit == 1000
defaultTenantId == "00000000-0000-0000-0000-000000000001"

(***************************************************************************)
(* Values.                                                                 *)
(***************************************************************************)
\* Timestamps.  The code writes `new Date()` into rows and never reads an
\* instant back, so the instants are one value: a timestamp is null or set.
NoTime == <<>>
Now == <<"now">>

RECURSIVE SeqsUpTo(_, _)
SeqsUpTo(S, n) ==
    IF n = 0 THEN {<<>>}
    ELSE LET shorter == SeqsUpTo(S, n - 1)
         IN  shorter \cup {Append(s, x) : s \in {t \in shorter : Len(t) = n - 1}, x \in S}

NoDup(s) == \A a, b \in 1..Len(s) : s[a] = s[b] => a = b

(***************************************************************************)
(* The feed sources on disk.  A string is the sequence of its tokens: "ws" *)
(* is white space, "#" the comment mark, every other token a piece of      *)
(* text.  The text source is unreadable or a sequence of lines; an OPML    *)
(* source is absent, malformed or a parsed document.  An `outline` value   *)
(* is absent, a single node or an array of nodes, and a node carries the   *)
(* xmlUrl attribute (empty when it has none) and an `outline` value.       *)
(***************************************************************************)
NoOutline == [isArray |-> FALSE, nodes |-> <<>>]
OneOutline(n) == [isArray |-> FALSE, nodes |-> <<n>>]
ManyOutlines(ns) == [isArray |-> TRUE, nodes |-> ns]
OutlineNode(url, children) == [xmlUrl |-> url, outline |-> children]

TextFile(ls) == [readable |-> TRUE, lines |-> ls]
UnreadableFile == [readable |-> FALSE, lines |-> <<>>]
OpmlFile(o) == [status |-> "ok", outline |-> o]
AbsentOpml == [status |-> "absent", outline |-> NoOutline]
MalformedOpml == [status |-> "malformed", outline |-> NoOutline]

\* Items a parsed feed can carry.  An absent field is the empty value.
Items ==
    { [guid |-> "g1", link |-> "l1", title |-> "t1",
       encUrl |-> <<"http://h/a", ".", "mp3">>, encType |-> "audio/mpeg"],
      [guid |-> "", link |-> "g1", title |-> "t2",
       encUrl |-> <<>>, encType |-> ""],
      [guid |-> "", link |-> "", title |-> "t1",
       encUrl |-> <<"http://h/c">>, encType |-> "audio/flac"] }

FeedMetas ==
    { [title |-> "", description |-> ""],
      [title |-> "A", description |-> "d"] }

Feeds == {[meta |-> m, items |-> il] : m \in FeedMetas, il \in SeqsUpTo(Items, MaxItems)}

\* Response bodies, as sequences of chunks: "ws" is white space, "bom" a
\* byte-order mark, "junk" any text that holds no XML token.
Bodies ==
    { <<"<rss">>, <<"bom", "<?xml", "ws">>, <<"<?XML", "<rss">>, <<"junk", "<feed">>,
      <<"<html">> }


(***************************************************************************)
(* The relational store: rows of the podcasts and episodes tables.         *)
(***************************************************************************)
\* uuidv4(): an identifier no row of the table carries yet.  Identifiers are
\* opaque, so the model names a new row after its unique key and the number
\* of rows that already carry that key: two tables that differ only in the
\* names of their identifiers are one state.
uuidv4(rows, key) == <<key, Cardinality({r \in rows : r.id[1] = key})>>

\* podcasts.rssUrl is declared unique, episodes.guid is declared unique.
UniqueRssUrl(rows) == \A a, b \in rows : a.rssUrl = b.rssUrl => a = b
UniqueGuid(rows) == \A a, b \in rows : a.guid = b.guid => a = b

\* `x || dflt` on a string: the empty string and null are both falsy.
OrElse(x, dflt) == IF x = "" THEN dflt ELSE x

(***************************************************************************)
(* RssProcessor: content validation and clean-up.                          *)
(***************************************************************************)
IsBlank(c) == c \in {"ws", "bom"}

\* String.prototype.trim: strips white space, U+FEFF included, at both ends.
RECURSIVE TrimLeft(_)
TrimLeft(s) == IF s # <<>> /\ IsBlank(Head(s)) THEN TrimLeft(Tail(s)) ELSE s

RECURSIVE TrimRight(_)
TrimRight(s) ==
    IF s # <<>> /\ IsBlank(s[Len(s)]) THEN TrimRight(SubSeq(s, 1, Len(s) - 1)) ELSE s

Trim(s) == TrimRight(TrimLeft(s))

StartsWith(s, tok) == s # <<>> /\ Head(s) = tok

\* A variant of the check that looks for the tokens anywhere in the text.
ContainsXmlToken(text) ==
    \E k \in 1..Len(text) : text[k] \in {"<?xml", "<rss", "<feed"}

\* The guard of the `Invalid RSS content` throw, negated.
LooksLikeXml(text) ==
    LET trimmedText == Trim(text)
    IN  \/ StartsWith(trimmedText, "<?xml")
        \/ StartsWith(trimmedText, "<rss")
        \/ StartsWith(trimmedText, "<feed")

\* /<\?xml|<rss|<feed/i matches the tokens in any letter case.
MatchesXmlStart(c) == c \in {"<?xml", "<?XML", "<rss", "<RSS", "<feed", "<FEED"}

cleanXmlContent(content) ==
    LET trimmed == Trim(content)
        hits == {k \in 1..Len(trimmed) : MatchesXmlStart(trimmed[k])}
        cut == IF hits # {} /\ (CHOOSE k \in hits : \A j \in hits : k <= j) > 1
               THEN SubSeq(trimmed, CHOOSE k \in hits : \A j \in hits : k <= j, Len(trimmed))
               ELSE trimmed
    IN  IF cut # <<>> /\ Head(cut) = "bom" THEN Tail(cut) ELSE cut

(***************************************************************************)
(* Database.connect: the default tenant.                                   *)
(***************************************************************************)
DefaultTenant ==
    [id |-> defaultTenantId, name |-> "Default Tenant",
     description |-> "Default tenant for podcast management"]

\* A variant of the bootstrap that rewrites the default tenant on every call.
resetDefaultTenant(rows) ==
    {r \in rows : r.id # defaultTenantId} \cup {DefaultTenant}

\* Database.ensureDefaultTenant: the tenants table after it.
ensureDefaultTenant(rows) ==
    LET existingTenant == {r \in rows : r.id = defaultTenantId}
    IN  IF existingTenant = {} THEN rows \cup {DefaultTenant} ELSE rows

(***************************************************************************)
(* RssProcessor: the two upserts, as functions of the table.               *)
(***************************************************************************)
podcastData(feed, rssUrl) ==
    [tenantId |-> defaultTenantId,
     title |-> OrElse(feed.meta.title, "Unknown"),
     description |-> feed.meta.description,
     rssUrl |-> rssUrl,
     updatedAt |-> Now]

\* A variant of the upsert that leaves an existing row as it is.
upsertedPodcastKeepsOld(rows, feed, rssUrl) ==
    LET existingPodcast == {r \in rows : r.rssUrl = rssUrl}
        data == podcastData(feed, rssUrl)
    IN  IF existingPodcast # {}
        THEN CHOOSE r \in existingPodcast : TRUE
        ELSE [id |-> uuidv4(rows, rssUrl), tenantId |-> data.tenantId,
              title |-> data.title, description |-> data.description,
              rssUrl |-> data.rssUrl, updatedAt |-> data.updatedAt]

\* The row the upsert returns; the table after it is insertOrUpdatePodcast.
upsertedPodcast(rows, feed, rssUrl) ==
    LET existingPodcast == {r \in rows : r.rssUrl = rssUrl}
        data == podcastData(feed, rssUrl)
    IN  IF existingPodcast # {}
        THEN LET old == CHOOSE r \in existingPodcast : TRUE
             IN  [id |-> old.id, tenantId |-> data.tenantId, title |-> data.title,
                  description |-> data.description, rssUrl |-> data.rssUrl,
                  updatedAt |-> data.updatedAt]
        ELSE [id |-> uuidv4(rows, rssUrl), tenantId |-> data.tenantId,
              title |-> data.title, description |-> data.description,
              rssUrl |-> data.rssUrl, updatedAt |-> data.updatedAt]

insertOrUpdatePodcast(rows, feed, rssUrl) ==
    LET row == upsertedPodcast(rows, feed, rssUrl)
    IN  {r \in rows : r.id # row.id} \cup {row}

\* A variant of the key that is always the synthetic one.
episodeGuidPerPodcast(podcastId, item) == <<podcastId, "_", item.title>>

\* item.guid || item.link || `${podcastId}_${item.title || ''}`
episodeGuid(podcastId, item) ==
    IF item.guid # "" THEN <<item.guid>>
    ELSE IF item.link # "" THEN <<item.link>>
    ELSE <<podcastId, "_", item.title>>

episodeData(rows, podcastId, item) ==
    [id |-> uuidv4(rows, episodeGuid(podcastId, item)),
     podcastId |-> podcastId,
     title |-> OrElse(item.title, "Unknown"),
     link |-> item.link,
     enclosureUrl |-> item.encUrl,
     enclosureType |-> item.encType,
     guid |-> episodeGuid(podcastId, item),
     downloadSuccess |-> FALSE,
     downloadedAt |-> NoTime,
     minioPath |-> <<>>,
     updatedAt |-> Now]

\* A variant without the existence check: every item is inserted.
insertEpisodeAlways(rows, podcastId, item) ==
    rows \cup {episodeData(rows, podcastId, item)}

\* A variant that refreshes a matching row from the item instead of skipping.
insertOrRefreshEpisode(rows, podcastId, item) ==
    LET guid == episodeGuid(podcastId, item)
        existingEpisode == {r \in rows : r.guid = guid}
        fresh == episodeData(rows, podcastId, item)
    IN  IF existingEpisode # {}
        THEN (rows \ existingEpisode)
             \cup {[fresh EXCEPT !.id = r.id, !.podcastId = r.podcastId] : r \in existingEpisode}
        ELSE rows \cup {fresh}

insertEpisodeIfNotExists(rows, podcastId, item) ==
    LET guid == episodeGuid(podcastId, item)
        existingEpisode == {r \in rows : r.guid = guid}
    IN  IF existingEpisode # {} THEN rows
        ELSE rows \cup {episodeData(rows, podcastId, item)}

(***************************************************************************)
(* Downloader: pure helpers.                                               *)
(***************************************************************************)
AudioExtensions == {"mp3", "m4a", "wav", "flac", "ogg"}

\* The URL is the sequence of its tokens, "." being a token of its own:
\* url.split('.') cuts it at every ".", and lastPart is what follows the last
\* one (the whole URL when it has none).  A known extension is returned when
\* lastPart is exactly that word.
determineFileExtension(url, contentType) ==
    LET dots == {k \in 1..Len(url) : url[k] = "."}
        lastPart == IF dots = {} THEN url
                    ELSE SubSeq(url, (CHOOSE k \in dots : \A j \in dots : j <= k) + 1,
                                Len(url))
    IN  IF Len(lastPart) = 1 /\ lastPart[1] \in AudioExtensions THEN lastPart[1]
        ELSE CASE contentType = "audio/mpeg" -> "mp3"
               [] contentType \in {"audio/mp4", "audio/m4a"} -> "m4a"
               [] contentType = "audio/wav" -> "wav"
               [] contentType = "audio/flac" -> "flac"
               [] contentType = "audio/ogg" -> "ogg"
               [] OTHER -> "mp3"

\* String.prototype.toLowerCase on the words the model writes in capitals.
toLowerCase(word) ==
    CASE word = "MP3" -> "mp3"
      [] word = "M4A" -> "m4a"
      [] OTHER -> word

\* A variant of the mapping that answers audio/m4a for m4a.
contentTypeWithM4a(path) ==
    LET extension == IF path = <<>> THEN "" ELSE toLowerCase(path[Len(path)])
    IN  CASE extension = "mp3" -> "audio/mpeg"
          [] extension = "m4a" -> "audio/m4a"
          [] extension = "wav" -> "audio/wav"
          [] extension = "flac" -> "audio/flac"
          [] extension = "ogg" -> "audio/ogg"
          [] OTHER -> "audio/mpeg"

\* The path is the sequence of its parts between the dots; pop() takes the
\* last of them.
determineContentTypeFromPath(path) ==
    LET extension == IF path = <<>> THEN "" ELSE toLowerCase(path[Len(path)])
    IN  CASE extension = "mp3" -> "audio/mpeg"
          [] extension = "m4a" -> "audio/mp4"
          [] extension = "wav" -> "audio/wav"
          [] extension = "flac" -> "audio/flac"
          [] extension = "ogg" -> "audio/ogg"
          [] OTHER -> "audio/mpeg"

\* `${episode.id}.${fileExtension}`: staged file name and object key.
filename(episode) ==
    <<episode.id, determineFileExtension(episode.enclosureUrl, episode.enclosureType)>>

\* A variant of the filter that lets every row through.
isAnyEpisode(row) == TRUE

\* WHERE download_success = false
isUndownloaded(row) == row.downloadSuccess = FALSE

Min(a, b) == IF a <= b THEN a ELSE b

\* The listings a select without ORDER BY and with LIMIT limit can return:
\* the store fixes no order, and LIMIT keeps any `limit` of the matching rows.
selectUndownloaded(rows, limit) ==
    LET matching == {r \in rows : isUndownloaded(r)}
        n == Min(Cardinality(matching), limit)
    IN  {l \in SeqsUpTo(matching, n) : Len(l) = n /\ NoDup(l)}

getUndownloadedEpisodes(rows) == selectUndownloaded(rows, ListLimit)

\* A variant that sets the flag and the timestamps but not the storage path.
markDownloadedWithoutPath(rows, episodeId, minioPath) ==
    {IF r.id = episodeId
     THEN [r EXCEPT !.downloadSuccess = TRUE, !.downloadedAt = Now, !.updatedAt = Now]
     ELSE r : r \in rows}

markDownloadSuccess(rows, episodeId, minioPath) ==
    {IF r.id = episodeId
     THEN [r EXCEPT !.downloadSuccess = TRUE, !.downloadedAt = Now,
                    !.minioPath = minioPath, !.updatedAt = Now]
     ELSE r : r \in rows}

markDownloadFailed(rows, episodeId) ==
    {IF r.id = episodeId
     THEN [r EXCEPT !.downloadSuccess = FALSE, !.updatedAt = Now]
     ELSE r : r \in rows}

(***************************************************************************)
(* main.ts and OpmlParser: collecting the feed URLs.                       *)
(***************************************************************************)
\* readRssUrlsFromFile, past the read: the trimmed lines that are neither
\* empty nor comments, in file order.
RECURSIVE readRssUrlsFromFile(_)
readRssUrlsFromFile(lines) ==
    IF lines = <<>> THEN <<>>
    ELSE LET trimmedLine == Trim(Head(lines))
             rest == readRssUrlsFromFile(Tail(lines))
         IN  IF trimmedLine # <<>> /\ ~StartsWith(trimmedLine, "#")
             THEN <<trimmedLine>> \o rest
             ELSE rest

\* `if (outline.outline)`: an absent value is falsy, an array (even an empty
\* one) and a node are truthy.
HasOutline(o) == o.isArray \/ o.nodes # <<>>

\* A variant of the walker that does not descend below a node that carries
\* a URL.
RECURSIVE extractUrlsFromTopOutlines(_, _)
extractUrlsFromTopOutlines(outlines, rssUrls) ==
    IF outlines.nodes = <<>> THEN rssUrls
    ELSE LET outline == Head(outlines.nodes)
             rest == [outlines EXCEPT !.nodes = Tail(outlines.nodes)]
             xmlUrl == outline.xmlUrl
             found == xmlUrl # <<>> /\ Trim(xmlUrl) # <<>>
             pushed == IF found THEN Append(rssUrls, xmlUrl) ELSE rssUrls
             nested == IF HasOutline(outline.outline) /\ ~found
                       THEN extractUrlsFromTopOutlines(outline.outline, pushed)
                       ELSE pushed
         IN  extractUrlsFromTopOutlines(rest, nested)

\* OpmlParser.extractUrlsFromOutlines: rssUrls after the walk.  A single node
\* is walked as the array of that node; the loop takes the nodes in order,
\* pushes the node's URL when it has a non-blank one and then walks the
\* node's own outlines before it goes on to the next node.
RECURSIVE extractUrlsFromOutlines(_, _)
extractUrlsFromOutlines(outlines, rssUrls) ==
    IF outlines.nodes = <<>> THEN rssUrls
    ELSE LET outline == Head(outlines.nodes)
             rest == [outlines EXCEPT !.nodes = Tail(outlines.nodes)]
             xmlUrl == outline.xmlUrl
             pushed == IF xmlUrl # <<>> /\ Trim(xmlUrl) # <<>>
                       THEN Append(rssUrls, xmlUrl)
                       ELSE rssUrls
             nested == IF HasOutline(outline.outline)
                       THEN extractUrlsFromOutlines(outline.outline, pushed)
                       ELSE pushed
         IN  extractUrlsFromOutlines(rest, nested)

\* OpmlParser.parseOpmlFile: a file that is absent or cannot be parsed gives
\* the empty list, and so does a document without opml.body.outline.
parseOpmlFile(file) ==
    IF file.status # "ok" THEN <<>>
    ELSE IF HasOutline(file.outline) THEN extractUrlsFromOutlines(file.outline, <<>>)
    ELSE <<>>

\* A variant that pushes every URL, seen before or not.
pushAll(allRssUrls, urls) == allRssUrls \o urls

\* if (!urlSet.has(url)) { urlSet.add(url); allRssUrls.push(url); }
RECURSIVE pushNew(_, _)
pushNew(allRssUrls, urls) ==
    IF urls = <<>> THEN allRssUrls
    ELSE pushNew(IF \E k \in 1..Len(allRssUrls) : allRssUrls[k] = Head(urls)
                 THEN allRssUrls
                 ELSE Append(allRssUrls, Head(urls)),
                 Tail(urls))

\* The four OPML sources, in the order they are read.
OpmlNames == <<"feed.xml", "feed.opml", "podcasts.opml", "subscriptions.opml">>

RECURSIVE collectFromOpml(_, _, _)
collectFromOpml(allRssUrls, opml, k) ==
    IF k > Len(OpmlNames) THEN allRssUrls
    ELSE collectFromOpml(pushNew(allRssUrls, parseOpmlFile(opml[k])), opml, k + 1)

\* A variant of the collector that returns the empty list instead of throwing.
collectWithoutCheck(sources) ==
    LET txtUrls == IF sources.txt.readable
                   THEN readRssUrlsFromFile(sources.txt.lines)
                   ELSE <<>>
    IN  [error |-> "", urls |-> collectFromOpml(pushNew(<<>>, txtUrls), sources.opml, 1)]

\* collectRssUrlsFromAllSources: the text source, whose read error is caught
\* and logged, then the OPML sources; it throws when nothing was collected.
collectRssUrlsFromAllSources(sources) ==
    LET txtUrls == IF sources.txt.readable
                   THEN readRssUrlsFromFile(sources.txt.lines)
                   ELSE <<>>
        allRssUrls == collectFromOpml(pushNew(<<>>, txtUrls), sources.opml, 1)
    IN  IF allRssUrls = <<>>
        THEN [error |-> "NoFeedSourcesFound", urls |-> <<>>]
        ELSE [error |-> "", urls |-> allRssUrls]

\* The sources a run of the pipeline finds: nothing usable; a text source
\* with a comment and one URL; no text source and two OPML sources with two
\* URLs between them.
RunSources ==
    { [txt |-> UnreadableFile,
       opml |-> <<MalformedOpml, AbsentOpml, AbsentOpml, AbsentOpml>>],
      [txt |-> TextFile(<<<<"#", "u2">>, <<"ws", "u1">>>>),
       opml |-> <<AbsentOpml, AbsentOpml, AbsentOpml, AbsentOpml>>],
      [txt |-> UnreadableFile,
       opml |-> <<OpmlFile(OneOutline(OutlineNode(<<>>,
                      ManyOutlines(<<OutlineNode(<<"u2">>, NoOutline),
                                     OutlineNode(<<"u1">>, NoOutline)>>)))),
                  AbsentOpml,
                  OpmlFile(ManyOutlines(<<OutlineNode(<<"u2">>, NoOutline)>>)),
                  AbsentOpml>>] }

\* The lines a text source is made of: empty, blank, a comment, an indented
\* comment, and URLs with and without white space around them.
TextLines ==
    { <<>>, <<"ws">>, <<"#", "u1">>, <<"ws", "#", "u2">>, <<"u1">>, <<"ws", "u1", "ws">>,
      <<"u2">> }

\* The text sources: unreadable, or up to MaxLines lines.
TextSources == {UnreadableFile} \cup {TextFile(ls) : ls \in SeqsUpTo(TextLines, MaxLines)}

\* The documents an OPML source can hold: no outline at all; one node with a
\* URL written with white space before it; a folder with a blank URL, a URL
\* that begins with "#" and a node nested below it; a list with a repeated
\* URL.
OpmlDocuments ==
    << OpmlFile(NoOutline),
       OpmlFile(OneOutline(OutlineNode(<<"ws", "u1">>, NoOutline))),
       OpmlFile(OneOutline(OutlineNode(<<"ws">>,
           ManyOutlines(<<OutlineNode(<<"#", "u3">>,
                              OneOutline(OutlineNode(<<"u2">>, NoOutline)))>>)))),
       OpmlFile(ManyOutlines(<<OutlineNode(<<"u3">>, NoOutline),
                               OutlineNode(<<"u1">>, NoOutline),
                               OutlineNode(<<"u3">>, NoOutline)>>)) >>

\* All the sources of the collector: any text source, and each OPML source
\* absent, malformed or one of the documents.
AllSources ==
    { [txt |-> t, opml |-> <<a, b, c, d>>] :
        t \in TextSources,
        a \in {AbsentOpml, MalformedOpml, OpmlDocuments[1], OpmlDocuments[3]},
        b \in {AbsentOpml, OpmlDocuments[2], OpmlDocuments[4]},
        c \in {MalformedOpml, OpmlDocuments[4]},
        d \in {AbsentOpml, OpmlDocuments[2]} }

\* The tenants table as a run can find it: empty; holding the default tenant
\* as the bootstrap writes it, or under a name an administrator gave it; and
\* with or without another tenant.  id is the primary key.
OtherTenant == [id |-> "t2", name |-> "Tenant 2", description |-> ""]
RenamedDefaultTenant == [id |-> defaultTenantId, name |-> "Main", description |-> ""]
TenantTables ==
    { {}, {DefaultTenant}, {RenamedDefaultTenant}, {OtherTenant},
      {OtherTenant, RenamedDefaultTenant} }

(***************************************************************************)
(* State.                                                                  *)
(***************************************************************************)
VARIABLES
    tenants,        \* rows of the tenants table
    podcasts,       \* rows of the podcasts table
    episodes,       \* rows of the episodes table
    objects,        \* keys of the objects put into the bucket
    tempFiles,      \* names of the staged files in the temporary directory
    bucketExists,   \* whether the target bucket exists
    run,            \* number of runs started
    mode,           \* "none", "fetch" or "download": the mode of the last run
    pc,             \* position of the running process
    outcome,        \* "none", "running", "ok" or "aborted": how the last run went
    fatal,          \* the error main's catch logged before process.exit(1), or ""
    rssUrls,        \* main: the collected URLs
    urlIdx,         \* main: index of the URL being processed
    attempt,        \* processRssFeed / downloadAndUploadEpisode: attempt
    lastError,      \* processRssFeed / downloadAndUploadEpisode: lastError
    waits,          \* history: the waits, in seconds, made so far between the
                    \* attempts of the current call
    text,           \* processRssFeed: the response body, until it is parsed
    pendingList,    \* downloadAllUndownloadedEpisodes: episodes
    epIdx,          \* downloadAllUndownloadedEpisodes: i (1-based)
    successCount,   \* downloadAllUndownloadedEpisodes: successCount
    failureCount,   \* downloadAllUndownloadedEpisodes: failureCount
    last,           \* history: the latest failed attempt of the current processRssFeed
                    \* call: its number, its error, the body the content check
                    \* refused (if it did) and whether the parser was called
    lastCall,       \* history: how the latest processRssFeed call ended, with the
                    \* podcast row it replaced and the item keys it found present
    feedLog,        \* history: the processRssFeed calls of this run, with their result
    dlLog,          \* history: the episodes handled in this run, with their result
                    \* and whether the result was recorded in the store
    constraintHit,  \* history: an insert was refused by a unique index
    input,          \* the argument a function is applied to, when a function is
                    \* examined on its own; the feed sources on disk otherwise
    output,         \* the result of the function applied to input
    fetchPc,        \* position of a fetch run that runs as a second process beside
                    \* a download run: the store statement it is about to issue
    itemIdx         \* processRssFeed of that run: index of the item of the loop

dbVars == <<tenants, podcasts, episodes>>
storageVars == <<objects, tempFiles, bucketExists>>
runVars == <<run, mode, outcome, fatal>>
fetchVars == <<rssUrls, urlIdx, text, last, lastCall, feedLog>>
retryVars == <<attempt, lastError, waits>>
dlVars == <<pendingList, epIdx, successCount, failureCount, dlLog>>
ioVars == <<input, output>>
peerVars == <<fetchPc, itemIdx>>

vars == <<tenants, podcasts, episodes, objects, tempFiles, bucketExists, run, mode, pc,
          outcome, fatal, rssUrls, urlIdx, attempt, lastError, waits, text, pendingList,
          epIdx, successCount, failureCount, last, lastCall, feedLog, dlLog,
          constraintHit, input, output, fetchPc, itemIdx>>

NoFeed == [meta |-> [title |-> "", description |-> ""], items |-> <<>>]
NoMeta == [title |-> "", description |-> ""]
NoAttempt == [n |-> 0, error |-> "", refused |-> <<>>, parsed |-> FALSE]
NoCall == [url |-> <<>>, result |-> "none", attempts |-> 0, error |-> "", failed |-> "",
           waits |-> <<>>, meta |-> NoMeta, replaced |-> {}, matched |-> {}]
NoInput == [fn |-> "none", arg |-> <<>>]
NoOutput == [done |-> FALSE, value |-> <<>>]

\* Before the first run: no run has started.
InitControl ==
    /\ run = 0
    /\ mode = "none"
    /\ pc = "idle"
    /\ outcome = "none"
    /\ fatal = ""
    /\ rssUrls = <<>>
    /\ urlIdx = 0
    /\ attempt = 0
    /\ lastError = ""
    /\ waits = <<>>
    /\ text = <<>>
    /\ pendingList = <<>>
    /\ epIdx = 0
    /\ successCount = 0
    /\ failureCount = 0
    /\ last = NoAttempt
    /\ lastCall = NoCall
    /\ feedLog = <<>>
    /\ dlLog = <<>>
    /\ constraintHit = FALSE
    /\ fetchPc = "off"
    /\ itemIdx = 0

\* Before the first run: no run has started and the stores are empty.
InitProgram ==
    /\ podcasts = {}
    /\ episodes = {}
    /\ objects = {}
    /\ tempFiles = {}
    /\ bucketExists = FALSE
    /\ InitControl

Init ==
    /\ InitProgram
    /\ tenants = {}
    /\ input = NoInput
    /\ output = NoOutput

(***************************************************************************)
(* Fetch mode: main's loop over the collected URLs and processRssFeed.     *)
(***************************************************************************)
\* Database.connect: the test query, then ensureDefaultTenant.  When the
\* database cannot be reached the error is thrown on to main; the table is
\* as it was.
connect(rows, dbUp) ==
    IF dbUp THEN [error |-> "", tenants |-> ensureDefaultTenant(rows)]
    ELSE [error |-> "DatabaseUnavailable", tenants |-> rows]

\* main, fetch mode, up to the loop over rssUrls: connect to the database,
\* then collect the URLs.  An error of either leaves main through its catch:
\* process.exit(1).
StartFetchRun(sources, dbUp) ==
    LET db == connect(tenants, dbUp)
        collected == collectRssUrlsFromAllSources(sources)
        error == IF db.error # "" THEN db.error ELSE collected.error
    IN  /\ run < MaxRuns
        /\ run' = run + 1
        /\ mode' = "fetch"
        /\ tenants' = db.tenants
        /\ feedLog' = <<>>
        /\ dlLog' = <<>>
        /\ pendingList' = <<>>
        /\ epIdx' = 0
        /\ successCount' = 0
        /\ failureCount' = 0
        /\ fatal' = error
        /\ IF error # ""
           THEN /\ outcome' = "aborted"
                /\ rssUrls' = <<>>
                /\ urlIdx' = 0
                /\ pc' = "idle"
           ELSE /\ outcome' = "running"
                /\ rssUrls' = collected.urls
                /\ urlIdx' = 1
                /\ pc' = "feed_loop"
        /\ UNCHANGED <<podcasts, episodes, storageVars, retryVars, text, last, lastCall,
                       constraintHit, ioVars, peerVars>>

\* for (const rssUrl of rssUrls): enter processRssFeed, first attempt.
BeginFeed ==
    /\ pc = "feed_loop"
    /\ urlIdx <= Len(rssUrls)
    /\ attempt' = 1
    /\ lastError' = ""
    /\ waits' = <<>>
    /\ last' = NoAttempt
    /\ lastCall' = NoCall
    /\ pc' = "fetch"
    /\ UNCHANGED <<dbVars, storageVars, runVars, rssUrls, urlIdx, text, feedLog, dlVars,
                   constraintHit, ioVars, peerVars>>

\* The loop is over: 'All RSS feeds processed successfully!'
FinishFetchRun ==
    /\ pc = "feed_loop"
    /\ urlIdx > Len(rssUrls)
    /\ outcome' = "ok"
    /\ last' = NoAttempt
    /\ lastCall' = NoCall
    /\ pc' = "idle"
    /\ UNCHANGED <<dbVars, storageVars, run, mode, fatal, rssUrls, urlIdx, retryVars, text,
                   feedLog, dlVars, constraintHit, ioVars, peerVars>>

\* The loop over feed.items: insertEpisodeIfNotExists inside its own
\* try/catch, which logs a failure and goes on with the next item.  oks[k]
\* tells whether the statements for item k run without an error of their
\* own; an insert the unique index on guid refuses throws as well.
\* A variant of the item loop's catch that leaves the loop over the n items
\* after the item at position k has failed.
stopAfterItemError(k, n) == n + 1

\* The catch inside the item loop logs the error, and the loop over the n
\* items goes on after position k.
continueAfterItemError(k, n) == k + 1

RECURSIVE insertItems(_, _, _, _, _)
insertItems(acc, podcastId, items, oks, k) ==
    IF k > Len(items) THEN acc
    ELSE LET after == insertEpisodeIfNotExists(acc.rows, podcastId, items[k])
             refused == ~UniqueGuid(after)
             next == IF oks[k] /\ ~refused THEN k + 1
                     ELSE continueAfterItemError(k, Len(items))
         IN  insertItems(
                 [rows |-> IF oks[k] /\ ~refused THEN after ELSE acc.rows,
                  hit |-> acc.hit \/ (oks[k] /\ refused),
                  matched |-> IF oks[k] /\ after = acc.rows
                              THEN acc.matched \cup {episodeGuid(podcastId, items[k])}
                              ELSE acc.matched],
                 podcastId, items, oks, next)

\* A variant of the catch block that keeps the first error of the call.
catchFirstError(previous, error) == IF previous = "" THEN error ELSE previous

\* lastError = error as Error
catchError(previous, error) == error

\* A variant of the backoff that starts at one second.
backoffFromOne(n) == 2 ^ (n - 1)

\* Math.pow(2, attempt) * 1000 milliseconds, in seconds.
backoffSeconds(n) == 2 ^ n

\* A variant of main's catch that leaves the loop: no URL after position i.
stopAfterFeedError(i, n) == n + 1

\* main's catch around processRssFeed logs the error and falls through to the
\* next iteration of the loop over rssUrls (n URLs, position i).
continueAfterFeedError(i, n) == i + 1

\* The catch block of processRssFeed's retry loop and what follows it: keep
\* the error, then either wait and go round again or, after the last attempt,
\* throw lastError to main, whose own catch logs it and moves to the next URL.
FailAttempt(error, refused, invoked) ==
    LET kept == catchError(lastError, error)
    IN  /\ last' = [n |-> attempt, error |-> error, refused |-> refused, parsed |-> invoked]
        /\ text' = <<>>
        /\ IF attempt < maxRetries
           THEN /\ attempt' = attempt + 1
                /\ lastError' = kept
                /\ waits' = Append(waits, backoffSeconds(attempt))
                /\ pc' = "fetch"
                /\ UNCHANGED <<lastCall, feedLog, urlIdx>>
           ELSE /\ lastCall' = [url |-> rssUrls[urlIdx], result |-> "thrown",
                                attempts |-> attempt, error |-> kept, failed |-> error,
                                waits |-> waits,
                                meta |-> NoMeta, replaced |-> {}, matched |-> {}]
                /\ waits' = <<>>
                /\ feedLog' = Append(feedLog, [url |-> rssUrls[urlIdx],
                                               result |-> "skipped"])
                /\ attempt' = 0
                /\ lastError' = ""
                /\ urlIdx' = continueAfterFeedError(urlIdx, Len(rssUrls))
                /\ pc' = "feed_loop"

\* First half of the try block: fetch(rssUrl), the status check and the
\* content check.  The request times out, or is answered with a failure
\* status, or with a body.
FetchFeed(response) ==
    /\ CASE response.kind = "timeout" -> FailAttempt("Timeout", <<>>, FALSE)
         [] response.kind = "status" -> FailAttempt("HttpStatus", <<>>, FALSE)
         [] OTHER ->
              IF LooksLikeXml(response.body)
              THEN /\ text' = response.body
                   /\ pc' = "parse"
                   /\ UNCHANGED <<retryVars, urlIdx, last, lastCall, feedLog>>
              ELSE FailAttempt("InvalidFeedContent", response.body, FALSE)
    /\ UNCHANGED <<dbVars, storageVars, runVars, rssUrls, dlVars, constraintHit, ioVars,
                   peerVars>>

\* A variant in which the failing podcast statement has written its row
\* before the error is thrown.
failedUpsertKeepsWrite(rows, written) == written

\* The podcasts table after an insert or update statement that fails: the
\* statement changes no row.
failedUpsert(rows, written) == rows

\* Second half of the try block: cleanXmlContent, parseString, the podcast
\* upsert and the item loop, up to `return`.  The parser rejects the cleaned
\* text or returns a feed; the podcast statements fail or go through.
ProcessFeed(o) ==
    /\ LET parseOk == o.parseOk
           parsed == o.parsed
           dbOk == o.dbOk
           oks == o.oks
           cleanedXml == cleanXmlContent(text)
           after == insertOrUpdatePodcast(podcasts, parsed, rssUrls[urlIdx])
           row == upsertedPodcast(podcasts, parsed, rssUrls[urlIdx])
           done == insertItems([rows |-> episodes, hit |-> FALSE, matched |-> {}],
                               row.id, parsed.items, oks, 1)
       IN  IF cleanedXml = <<>> \/ ~parseOk
           THEN /\ FailAttempt("ParseFailure", <<>>, TRUE)
                /\ UNCHANGED <<dbVars, constraintHit>>
           ELSE IF ~dbOk \/ ~UniqueRssUrl(after)
           THEN /\ FailAttempt("DbError", <<>>, TRUE)
                /\ constraintHit' = (constraintHit \/ (dbOk /\ ~UniqueRssUrl(after)))
                /\ podcasts' = failedUpsert(podcasts, after)
                /\ UNCHANGED <<tenants, episodes>>
           ELSE /\ podcasts' = after
                /\ episodes' = done.rows
                /\ tenants' = tenants
                /\ waits' = <<>>
                /\ constraintHit' = (constraintHit \/ done.hit)
                /\ last' = NoAttempt
                /\ lastCall' = [url |-> rssUrls[urlIdx], result |-> "returned",
                                attempts |-> attempt, error |-> "", failed |-> "",
                                waits |-> waits, meta |-> parsed.meta,
                                replaced |-> {r \in podcasts : r.rssUrl = rssUrls[urlIdx]},
                                matched |-> done.matched]
                /\ feedLog' = Append(feedLog, [url |-> rssUrls[urlIdx], result |-> "ok"])
                /\ text' = <<>>
                /\ attempt' = 0
                /\ lastError' = ""
                /\ urlIdx' = urlIdx + 1
                /\ pc' = "feed_loop"
    /\ UNCHANGED <<storageVars, runVars, rssUrls, dlVars, ioVars, peerVars>>

(***************************************************************************)
(* Download mode: storage bootstrap and downloadAllUndownloadedEpisodes.   *)
(***************************************************************************)
\* A variant of the bootstrap that logs every error and goes on.
createBucketQuietly(exists, headFails, createOk) ==
    [error |-> "", bucketExists |-> exists \/ (~headFails /\ createOk)]

\* Downloader.createBucketIfNotExists.  HeadBucket succeeds when the bucket
\* is there, reports NotFound when it is not, or fails otherwise (headFails);
\* on NotFound CreateBucket runs, and succeeds or fails.  The result is the
\* error thrown ("" when it returns) and whether the bucket exists after it.
createBucketIfNotExists(exists, headFails, createOk) ==
    IF headFails THEN [error |-> "StorageUnavailable", bucketExists |-> exists]
    ELSE IF exists THEN [error |-> "", bucketExists |-> TRUE]
    ELSE IF createOk THEN [error |-> "", bucketExists |-> TRUE]
    ELSE [error |-> "StorageUnavailable", bucketExists |-> FALSE]

\* main, download mode: connect to the database, then downloader.initialize()
\* -> createBucketIfNotExists.  A throw of either leaves main through its
\* catch: process.exit(1).
initializeDownloadRun(dbUp, headFails, createOk) ==
    LET db == connect(tenants, dbUp)
        storage == createBucketIfNotExists(bucketExists, headFails, createOk)
        error == IF db.error # "" THEN db.error ELSE storage.error
    IN  /\ mode' = "download"
        /\ tenants' = db.tenants
        /\ rssUrls' = <<>>
        /\ urlIdx' = 0
        /\ feedLog' = <<>>
        /\ dlLog' = <<>>
        /\ pendingList' = <<>>
        /\ epIdx' = 0
        /\ successCount' = 0
        /\ failureCount' = 0
        /\ fatal' = error
        /\ bucketExists' = (IF db.error # "" THEN bucketExists ELSE storage.bucketExists)
        /\ IF error # ""
           THEN /\ outcome' = "aborted"
                /\ pc' = "idle"
           ELSE /\ outcome' = "running"
                /\ pc' = "list"
        /\ UNCHANGED <<podcasts, episodes, objects, tempFiles, retryVars, text, last,
                       lastCall, constraintHit, ioVars, peerVars>>

StartDownloadRun(dbUp, headFails, createOk) ==
    /\ run < MaxRuns
    /\ run' = run + 1
    /\ initializeDownloadRun(dbUp, headFails, createOk)

\* const episodes = await this.getUndownloadedEpisodes()
ListPending(listing) ==
    /\ pendingList' = listing
    /\ epIdx' = 1
    /\ pc' = "dl_loop"
    /\ UNCHANGED <<dbVars, storageVars, runVars, fetchVars, retryVars, successCount,
                   failureCount, dlLog, constraintHit, ioVars, peerVars>>

\* Loop head: enter downloadAndUploadEpisode(episode).  Without an enclosure
\* URL it throws at once, into the catch of the loop body.
BeginEpisode ==
    /\ pc = "dl_loop"
    /\ epIdx <= Len(pendingList)
    /\ IF pendingList[epIdx].enclosureUrl = <<>>
       THEN /\ lastError' = "MissingEnclosure"
            /\ attempt' = 0
            /\ failureCount' = failureCount + 1
            /\ pc' = "dl_failed"
       ELSE /\ lastError' = ""
            /\ attempt' = 1
            /\ pc' = "dl_attempt"
            /\ UNCHANGED failureCount
    /\ waits' = <<>>
    /\ UNCHANGED <<dbVars, storageVars, runVars, fetchVars, pendingList, epIdx,
                   successCount, dlLog, constraintHit, ioVars, peerVars>>

\* A variant of the pass in which a failing state update is logged, not
\* thrown.
tryDownloadIgnoringDbError(episode, o) ==
    LET name == filename(episode)
        left == IF o.unlink THEN tempFiles \ {name} ELSE tempFiles \cup {name}
    IN  IF ~o.get
        THEN [error |-> "DownloadFailed", episodes |-> episodes, objects |-> objects,
              tempFiles |-> tempFiles]
        ELSE IF o.stage # "written"
        THEN [error |-> "StageFailed", episodes |-> episodes, objects |-> objects,
              tempFiles |-> IF o.stage = "partial" THEN tempFiles \cup {name} ELSE tempFiles]
        ELSE IF ~o.put
        THEN [error |-> "UploadFailed", episodes |-> episodes, objects |-> objects,
              tempFiles |-> left]
        ELSE [error |-> "",
              episodes |-> IF o.db THEN markDownloadSuccess(episodes, episode.id, name)
                           ELSE episodes,
              objects |-> objects \cup {name}, tempFiles |-> left]

\* One pass through the try block of downloadAndUploadEpisode:
\* downloadFileWithRetry, then processDownloadedFile (write the staged file;
\* inside try/finally upload it and mark the row; finally unlink the staged
\* file, a failing unlink being caught and logged).  A failing write may
\* leave a partial file behind.  The result names the error thrown ("" when
\* the pass returns) and what the pass left in the store and in storage.
tryDownload(episode, o) ==
    LET name == filename(episode)
        getOk == o.get
        stage == o.stage
        putOk == o.put
        dbOk == o.db
        unlinkOk == o.unlink
        left == IF unlinkOk THEN tempFiles \ {name} ELSE tempFiles \cup {name}
    IN  IF ~getOk
        THEN [error |-> "DownloadFailed", episodes |-> episodes, objects |-> objects,
              tempFiles |-> tempFiles]
        ELSE IF stage # "written"
        THEN [error |-> "StageFailed", episodes |-> episodes, objects |-> objects,
              tempFiles |-> IF stage = "partial" THEN tempFiles \cup {name} ELSE tempFiles]
        ELSE IF ~putOk
        THEN [error |-> "UploadFailed", episodes |-> episodes, objects |-> objects,
              tempFiles |-> left]
        ELSE IF ~dbOk
        THEN [error |-> "DbError", episodes |-> episodes,
              objects |-> objects \cup {name}, tempFiles |-> left]
        ELSE [error |-> "", episodes |-> markDownloadSuccess(episodes, episode.id, name),
              objects |-> objects \cup {name}, tempFiles |-> left]

\* One attempt of downloadAndUploadEpisode's retry loop.  A pass that throws
\* lands in the catch block: keep the error, then wait and go round again or,
\* after the last attempt, throw into the catch of the loop body, which
\* counts the failure.  A pass that returns is counted as a success, and the
\* loop goes to the next episode.
DownloadAttempt(o) ==
    /\ LET res == tryDownload(pendingList[epIdx], o)
       IN  /\ episodes' = res.episodes
           /\ objects' = res.objects
           /\ tempFiles' = res.tempFiles
           /\ IF res.error = ""
              THEN /\ successCount' = successCount + 1
                   /\ dlLog' = Append(dlLog, [id |-> pendingList[epIdx].id,
                                              result |-> "success", recorded |-> TRUE])
                   /\ epIdx' = epIdx + 1
                   /\ attempt' = 0
                   /\ lastError' = ""
                   /\ waits' = <<>>
                   /\ pc' = "dl_loop"
                   /\ UNCHANGED failureCount
              ELSE IF attempt < maxRetries
              THEN /\ attempt' = attempt + 1
                   /\ lastError' = res.error
                   /\ waits' = Append(waits, backoffSeconds(attempt))
                   /\ UNCHANGED <<successCount, failureCount, dlLog, epIdx, pc>>
              ELSE /\ attempt' = 0
                   /\ lastError' = res.error
                   /\ failureCount' = failureCount + 1
                   /\ pc' = "dl_failed"
                   /\ UNCHANGED <<successCount, dlLog, epIdx, waits>>
    /\ UNCHANGED <<tenants, podcasts, bucketExists, runVars, fetchVars, pendingList,
                   constraintHit, ioVars, peerVars>>

\* A variant of the loop's catch in which a failure to record the failure
\* leaves the loop: no episode after position i.
stopWhenUnrecorded(i, n, recorded) == IF recorded THEN i + 1 ELSE n + 1

\* The catch of the loop body swallows a failing markDownloadFailed, and the
\* loop over the n listed episodes goes on after position i either way.
continueAfterEpisodeError(i, n, recorded) == i + 1

\* The catch of the loop body: markDownloadFailed(episode.id) inside its own
\* try/catch, then on to the next episode.
MarkFailed(dbOk) ==
    /\ episodes' = IF dbOk
                   THEN markDownloadFailed(episodes, pendingList[epIdx].id)
                   ELSE episodes
    /\ dlLog' = Append(dlLog, [id |-> pendingList[epIdx].id, result |-> "failure",
                               recorded |-> dbOk])
    /\ epIdx' = continueAfterEpisodeError(epIdx, Len(pendingList), dbOk)
    /\ lastError' = ""
    /\ waits' = <<>>
    /\ pc' = "dl_loop"
    /\ UNCHANGED <<tenants, podcasts, storageVars, runVars, fetchVars, attempt, pendingList,
                   successCount, failureCount, constraintHit, ioVars, peerVars>>

\* The loop is over: the download summary, 'Download completed!'.
FinishDownloadRun ==
    /\ pc = "dl_loop"
    /\ epIdx > Len(pendingList)
    /\ outcome' = "ok"
    /\ pc' = "idle"
    /\ UNCHANGED <<dbVars, storageVars, run, mode, fatal, fetchVars, retryVars, dlVars,
                   constraintHit, ioVars, peerVars>>

\* What the start of a download run can meet: the database is down; or it
\* is up and HeadBucket fails, or answers and CreateBucket, if it comes to
\* that, succeeds or fails.
StartOutcomes ==
    {[dbUp |-> FALSE, headFails |-> FALSE, createOk |-> FALSE],
     [dbUp |-> TRUE, headFails |-> TRUE, createOk |-> FALSE],
     [dbUp |-> TRUE, headFails |-> FALSE, createOk |-> TRUE],
     [dbUp |-> TRUE, headFails |-> FALSE, createOk |-> FALSE]}

\* What a request for a feed can bring.
FetchOutcomes ==
    {[kind |-> k, body |-> <<>>] : k \in {"timeout", "status"}}
    \cup {[kind |-> "body", body |-> b] : b \in Bodies}

\* What can happen from the parser on: the parser rejects the text; or it
\* returns a feed and the podcast statements fail; or they go through and
\* the statements of item k run without an error of their own iff oks[k].
ProcessOutcomes ==
    {[parseOk |-> FALSE, parsed |-> NoFeed, dbOk |-> FALSE, oks |-> <<>>]}
    \cup {[parseOk |-> TRUE, parsed |-> f, dbOk |-> FALSE, oks |-> <<>>] : f \in {NoFeed}}
    \cup UNION {{[parseOk |-> TRUE, parsed |-> f, dbOk |-> TRUE, oks |-> oks] :
                    oks \in {l \in SeqsUpTo(BOOLEAN, MaxItems) : Len(l) = Len(f.items)}} :
                 f \in Feeds}

\* What can happen in one pass of processDownloadedFile and before it: the
\* first step that fails ends the pass, and the steps after it do not run.
DownloadOutcomes ==
    LET o(get, stage, put, db, unlink) ==
            [get |-> get, stage |-> stage, put |-> put, db |-> db, unlink |-> unlink]
    IN  {o(FALSE, "none", FALSE, FALSE, FALSE)}
        \cup {o(TRUE, stage, FALSE, FALSE, FALSE) : stage \in {"none", "partial"}}
        \cup {o(TRUE, "written", put, db, unlink) :
                put \in BOOLEAN, db \in BOOLEAN, unlink \in BOOLEAN}

Next ==
    \/ pc = "idle" /\ \E sources \in RunSources, dbUp \in BOOLEAN :
                        StartFetchRun(sources, dbUp)
    \/ BeginFeed
    \/ pc = "fetch" /\ \E response \in FetchOutcomes : FetchFeed(response)
    \/ pc = "parse" /\ \E o \in ProcessOutcomes : ProcessFeed(o)
    \/ FinishFetchRun
    \/ pc = "idle" /\ \E o \in StartOutcomes :
                        StartDownloadRun(o.dbUp, o.headFails, o.createOk)
    \/ pc = "list" /\ \E listing \in getUndownloadedEpisodes(episodes) : ListPending(listing)
    \/ BeginEpisode
    \/ pc = "dl_attempt" /\ \E o \in DownloadOutcomes : DownloadAttempt(o)
    \/ pc = "dl_failed" /\ \E dbOk \in BOOLEAN : MarkFailed(dbOk)
    \/ FinishDownloadRun

Spec == Init /\ [][Next]_vars

(***************************************************************************)
(* The start of a run over every set of sources and every tenants table.   *)
(* `input` holds the sources on disk, which stay as they are.              *)
(***************************************************************************)
InitStart ==
    /\ InitProgram
    /\ tenants \in TenantTables
    /\ input \in {[fn |-> "collect", arg |-> sources] : sources \in AllSources}
    /\ output = NoOutput

NextStart ==
    \/ pc = "idle" /\ \E dbUp \in BOOLEAN : StartFetchRun(input.arg, dbUp)
    \/ pc = "idle" /\ \E o \in StartOutcomes :
                        StartDownloadRun(o.dbUp, o.headFails, o.createOk)

SpecStart == InitStart /\ [][NextStart]_vars

(***************************************************************************)
(* Properties.                                                             *)
(***************************************************************************)
\* The download-state fields of an episode row, and their values in a row
\* that no download run has touched.
downloadState(r) == <<r.downloadSuccess, r.downloadedAt, r.minioPath>>
NotDownloaded == <<FALSE, NoTime, <<>>>>

\* A fetch run that got as far as its loop has come to its end.
FetchRunOver == mode = "fetch" /\ pc = "idle" /\ rssUrls # <<>>
DownloadRunOver == mode = "download" /\ pc = "idle" /\ outcome = "ok"

\* C1: the podcasts table never holds two rows with the same feed URL, and
\* when a processRssFeed call has returned, the table holds a row for the
\* URL of the call whose title and description are those of the feed just
\* parsed (the title "Unknown" standing in for a missing one), whatever the
\* row held before.
C1_OnePodcastRowPerFeedUrl ==
    /\ \A a, b \in podcasts : a.rssUrl = b.rssUrl => a = b
    /\ lastCall.result = "returned" =>
          \E r \in podcasts :
             /\ r.rssUrl = lastCall.url
             /\ r.title = (IF lastCall.meta.title = "" THEN "Unknown"
                           ELSE lastCall.meta.title)
             /\ r.description = lastCall.meta.description

\* C1, witness: a call has returned for a URL whose row held other metadata.
C1_SecondUpsertReached ==
    /\ lastCall.result = "returned"
    /\ \E old \in lastCall.replaced : old.description # lastCall.meta.description
    /\ Cardinality({r \in podcasts : r.rssUrl = lastCall.url}) = 1

C3_ExistingEpisodeUntouched ==
    [][mode' = "fetch" => \A r \in episodes : r \in episodes']_vars

\* C3, witness: a later fetch found the key of a downloaded episode present,
\* and the row still carries its download state.
C3_DownloadedEpisodeRefetched ==
    /\ lastCall.result = "returned"
    /\ \E r \in episodes :
          /\ r.guid \in lastCall.matched
          /\ r.downloadSuccess
          /\ r.minioPath # <<>>

\* C4: processRssFeed never makes a fourth attempt; a call that returns has
\* made at most 3 attempts and is over at once; a call that throws has made
\* exactly 3 attempts and throws the error of the third.
C4_AtMostThreeAttempts ==
    /\ pc \in {"fetch", "parse"} => attempt \in 1..3
    /\ lastCall.result = "returned" => lastCall.attempts \in 1..3 /\ pc = "feed_loop"
    /\ lastCall.result = "thrown" =>
          /\ lastCall.attempts = 3
          /\ lastCall.error = lastCall.failed
          /\ pc = "feed_loop"

\* C4, witness: a call has thrown after three failing attempts, the third of
\* them a failure of the parser.
C4_ThrownAfterThreeReached ==
    /\ lastCall.result = "thrown"
    /\ lastCall.attempts = 3
    /\ lastCall.failed = "ParseFailure"

\* C5: in a fetch run the calls made so far are for the first URLs of the
\* collected list, one call per URL and in the order of the list, and when
\* the run is over it has ended normally with a call made for every URL.
C5_FailedFeedIsSkipped ==
    mode = "fetch" =>
       /\ Len(feedLog) <= Len(rssUrls)
       /\ \A k \in 1..Len(feedLog) : feedLog[k].url = rssUrls[k]
       /\ FetchRunOver => outcome = "ok" /\ Len(feedLog) = Len(rssUrls)

\* C5, witness: a run is over in which the first URL failed on all attempts
\* and the URL after it was processed.
C5_SkippedThenProcessedReached ==
    /\ FetchRunOver
    /\ Len(feedLog) = 2
    /\ feedLog[1].result = "skipped"
    /\ feedLog[2].result = "ok"

\* C6: when a download run is over, every episode it counted as failed and
\* recorded as such is in a download state other than that of an episode no
\* run has touched, is not marked downloaded and has no storage path.
C6_FailedStateIsDistinct ==
    DownloadRunOver =>
       \A k \in 1..Len(dlLog) :
          (dlLog[k].result = "failure" /\ dlLog[k].recorded) =>
             \A r \in episodes :
                r.id = dlLog[k].id =>
                   /\ downloadState(r) # NotDownloaded
                   /\ ~r.downloadSuccess
                   /\ r.minioPath = <<>>

\* C7: in a download run the episodes handled so far are the first episodes
\* of the listing, each once and in the order of the listing, and when the run
\* is over every listed episode has been handled and successCount +
\* failureCount is the length of the listing.
C7_BatchNeverAborts ==
    mode = "download" =>
       /\ Len(dlLog) <= Len(pendingList)
       /\ \A k \in 1..Len(dlLog) : dlLog[k].id = pendingList[k].id
       /\ DownloadRunOver =>
             /\ Len(dlLog) = Len(pendingList)
             /\ successCount + failureCount = Len(pendingList)
             /\ successCount = Cardinality({k \in 1..Len(dlLog) : dlLog[k].result = "success"})

\* C7, witness: a run is over in which the failure of the first episode could
\* not be recorded in the store and the episode after it was handled.
C7_UnrecordedFailureReached ==
    /\ DownloadRunOver
    /\ Len(dlLog) = 2
    /\ dlLog[1].result = "failure"
    /\ ~dlLog[1].recorded

\* C8: an episode marked downloaded has a storage path of the form
\* <episode-id>.<extension>, an object with that key is in the bucket, and
\* its downloaded timestamp is set.
C8_DownloadedHasObject ==
    \A r \in episodes :
       r.downloadSuccess =>
          /\ \E ext \in {"mp3", "m4a", "wav", "flac", "ogg"} : r.minioPath = <<r.id, ext>>
          /\ r.minioPath \in objects
          /\ r.downloadedAt # NoTime

\* C8, witness: an episode is marked downloaded.
C8_DownloadedReached ==
    \E r \in episodes : r.downloadSuccess /\ r.minioPath \in objects

\* C9: no step of any run takes the downloaded mark from an episode: an
\* episode marked downloaded before the step is marked downloaded after it.
C9_DownloadedIsMonotonic ==
    [][\A r \in episodes :
          r.downloadSuccess => \E q \in episodes' : q.id = r.id /\ q.downloadSuccess]_vars

\* C9, witness: a later download run is recording a failure while another
\* episode is marked downloaded.
C9_LaterRunWithDownloadedReached ==
    /\ pc = "dl_failed"
    /\ \E r \in episodes : r.downloadSuccess /\ r.id # pendingList[epIdx].id

\* The trimmed text starts with `<?xml`, `<rss` or `<feed`: one of the tokens
\* comes with nothing but white space before it.
StartsWithXmlToken(body) ==
    \E k \in 1..Len(body) :
       /\ body[k] \in {"<?xml", "<rss", "<feed"}
       /\ \A j \in 1..(k - 1) : body[j] \in {"ws", "bom"}

\* C10: an attempt that receives a body whose trimmed text starts with none
\* of `<?xml`, `<rss`, `<feed` does not reach the parser: it fails with the
\* content error, the parser is not invoked and no row of either table is
\* written.
C10_NonXmlBodyRejected ==
    [][LET body == IF pc' = "parse" THEN text' ELSE last'.refused
       IN  (pc = "fetch" /\ body # <<>> /\ ~StartsWithXmlToken(body)) =>
              /\ pc' # "parse"
              /\ last'.error = "InvalidFeedContent"
              /\ ~last'.parsed
              /\ podcasts' = podcasts
              /\ episodes' = episodes]_vars

\* C10, witness: an attempt has just refused a body that starts with no token.
C10_RefusedBodyReached ==
    /\ pc = "fetch"
    /\ last.n = 1
    /\ last.refused # <<>>
    /\ ~StartsWithXmlToken(last.refused)

(***************************************************************************)
(* The functions of the program over their inputs: `input` names the       *)
(* function and holds its arguments, `output` its result once applied.     *)
(***************************************************************************)
\* Outline trees of up to MaxDepth levels with up to MaxWidth siblings.  A
\* node has no xmlUrl, a blank one, or a URL that no other node has: "u"
\* followed by the node's position among its siblings at every level.
Digits == <<"1", "2", "3", "4">>
UrlAt(path) == <<"u">> \o [k \in 1..Len(path) |-> Digits[path[k]]]

RECURSIVE NodesAt(_, _)
RECURSIVE SiblingsAt(_, _, _)
RECURSIVE OutlinesAt(_, _)
NodesAt(path, d) ==
    {OutlineNode(url, children) :
        url \in {<<>>, <<"ws">>, UrlAt(path)}, children \in OutlinesAt(path, d - 1)}

SiblingsAt(path, d, w) ==
    IF w = 0 THEN {<<>>}
    ELSE {Append(ns, n) : ns \in SiblingsAt(path, d, w - 1),
                          n \in NodesAt(Append(path, w), d)}

OutlinesAt(path, d) ==
    IF d = 0 THEN {NoOutline}
    ELSE {NoOutline}
         \cup {OneOutline(n) : n \in NodesAt(Append(path, 1), d)}
         \cup UNION {{ManyOutlines(ns) : ns \in SiblingsAt(path, d, w)} : w \in 0..MaxWidth}

\* Enclosure URLs, as token sequences: without an extension, with a known
\* or an unknown one, with an upper-case one, with two dots, with a trailing
\* dot, and with a query or a fragment after the path.
ExtensionUrls ==
    { <<>>, <<"http://h/a">>, <<"http://h/a", ".">>,
      <<"http://h/a", ".", "v2", ".", "flac">>,
      <<"http://h/a", ".", "ogg", "?", "x=1">>,
      <<"http://h/a", ".", "wav", "#", "t=10">>,
      <<"http://h/a", "?", "f=b", ".", "m4a">> }
    \cup {<<"http://h/a", ".", e>> : e \in AudioExtensions \cup {"MP3", "txt"}}

ContentTypes ==
    {"", "audio/mpeg", "audio/mp4", "audio/m4a", "audio/wav", "audio/flac", "audio/ogg",
     "AUDIO/FLAC", "audio/x-aac"}

\* Podcast tables of up to two rows, of the default tenant or of another.
PodcastRows ==
    {[id |-> <<u, 0>>, tenantId |-> t, title |-> ti, description |-> "", rssUrl |-> u,
      updatedAt |-> NoTime] :
        u \in {<<"u1">>, <<"u2">>}, t \in {defaultTenantId, "t2"}, ti \in {"A", "B"}}

PodcastTables ==
    {rows \in SUBSET PodcastRows : Cardinality(rows) <= 2 /\ UniqueRssUrl(rows)}

\* Paths of staged files: with each known extension, with one in capitals,
\* with an unknown one and with none.
StagedPaths ==
    {<<"tmp/e1", e>> : e \in AudioExtensions \cup {"MP3", "M4A", "txt"}} \cup {<<"tmp/e1">>}

InitFunctions ==
    /\ InitProgram
    /\ tenants = {}
    /\ output = NoOutput
    /\ \/ input \in {[fn |-> "extractUrlsFromOutlines", arg |-> o] :
                        o \in OutlinesAt(<<>>, MaxDepth)}
       \/ input \in {[fn |-> "determineFileExtension",
                       arg |-> [url |-> u, contentType |-> t]] :
                        u \in ExtensionUrls, t \in ContentTypes}
       \/ input \in {[fn |-> "insertOrUpdatePodcast",
                       arg |-> [rows |-> rows, feed |-> [meta |-> m, items |-> <<>>],
                                rssUrl |-> u]] :
                        rows \in PodcastTables, m \in FeedMetas,
                        u \in {<<"u1">>, <<"u2">>}}
       \/ input \in {[fn |-> "determineContentTypeFromPath", arg |-> path] :
                        path \in StagedPaths}

Returns(value) ==
    /\ ~output.done
    /\ output' = [done |-> TRUE, value |-> value]
    /\ UNCHANGED <<dbVars, storageVars, runVars, pc, fetchVars, retryVars, dlVars,
                   constraintHit, input, peerVars>>

WalkOutlines ==
    /\ input.fn = "extractUrlsFromOutlines"
    /\ Returns(extractUrlsFromOutlines(input.arg, <<>>))

DetermineExtension ==
    /\ input.fn = "determineFileExtension"
    /\ Returns(determineFileExtension(input.arg.url, input.arg.contentType))

UpsertPodcast ==
    /\ input.fn = "insertOrUpdatePodcast"
    /\ Returns(insertOrUpdatePodcast(input.arg.rows, input.arg.feed, input.arg.rssUrl))

DetermineContentType ==
    /\ input.fn = "determineContentTypeFromPath"
    /\ Returns(determineContentTypeFromPath(input.arg))

NextFunctions ==
    WalkOutlines \/ DetermineExtension \/ UpsertPodcast \/ DetermineContentType

SpecFunctions == InitFunctions /\ [][NextFunctions]_vars

(***************************************************************************)
(* Download runs without end over a store that holds pending episodes,     *)
(* with the database and the storage up and every transfer going through.  *)
(* The tables are scaled down: a listing of ScaledLimit rows stands for the *)
(* listing of ListLimit rows, more pending episodes than that for more     *)
(* than ListLimit of them.                                                 *)
(***************************************************************************)
\* The items of the feed that filled the store: those of Items and one more
\* without an enclosure.
PendingItems ==
    Items \cup {[guid |-> "g2", link |-> "", title |-> "t3", encUrl |-> <<>>, encType |-> ""]}

PendingFeeds ==
    {[meta |-> [title |-> "A", description |-> "d"], items |-> il] :
        il \in {l \in SeqsUpTo(PendingItems, MaxPending) : l # <<>> /\ NoDup(l)}}

\* The store after a fetch run that processed the feed at "u1".
PodcastsAfterFetch(feed) == insertOrUpdatePodcast({}, feed, <<"u1">>)
EpisodesAfterFetch(feed) ==
    insertItems([rows |-> {}, hit |-> FALSE, matched |-> {}],
                upsertedPodcast({}, feed, <<"u1">>).id, feed.items,
                [k \in 1..Len(feed.items) |-> TRUE], 1).rows

InitDrain ==
    /\ InitControl
    /\ tenants = {DefaultTenant}
    /\ \E feed \in PendingFeeds :
          /\ podcasts = PodcastsAfterFetch(feed)
          /\ episodes = EpisodesAfterFetch(feed)
    /\ objects = {}
    /\ tempFiles = {}
    /\ bucketExists \in BOOLEAN
    /\ input = NoInput
    /\ output = NoOutput

\* One more invocation in download mode; the invocations are not counted.
RepeatDownloadRun ==
    /\ pc = "idle"
    /\ run' = run
    /\ initializeDownloadRun(TRUE, FALSE, TRUE)

AllGoesThrough == [get |-> TRUE, stage |-> "written", put |-> TRUE, db |-> TRUE, unlink |-> TRUE]

NextDrain ==
    \/ RepeatDownloadRun
    \/ pc = "list" /\ \E listing \in selectUndownloaded(episodes, ScaledLimit) :
                        ListPending(listing)
    \/ BeginEpisode
    \/ pc = "dl_attempt" /\ DownloadAttempt(AllGoesThrough)
    \/ pc = "dl_failed" /\ MarkFailed(TRUE)
    \/ FinishDownloadRun

\* The tool is invoked again and again, and a run that can take a step
\* takes one.
SpecDrain == InitDrain /\ [][NextDrain]_vars /\ WF_vars(NextDrain)

(***************************************************************************)
(* Fetch runs over two feed URLs that serve the same feed of up to         *)
(* MaxSiblings items.  `input` holds the feed and, item by item, whether   *)
(* the statements of the item run without an error of their own.           *)
(***************************************************************************)
SiblingFeeds ==
    {[meta |-> [title |-> "A", description |-> "d"], items |-> il] :
        il \in SeqsUpTo(PendingItems, MaxSiblings)}

TwoFeedSources ==
    [txt |-> TextFile(<<<<"u1">>, <<"u2">>>>),
     opml |-> <<AbsentOpml, AbsentOpml, AbsentOpml, AbsentOpml>>]

InitFeed ==
    /\ InitProgram
    /\ tenants = {}
    /\ input \in UNION {{[fn |-> "processRssFeed", arg |-> [feed |-> f, oks |-> oks]] :
                            oks \in {l \in SeqsUpTo(BOOLEAN, MaxSiblings) :
                                       Len(l) = Len(f.items)}} :
                         f \in SiblingFeeds}
    /\ output = NoOutput

NextFeed ==
    \/ pc = "idle" /\ StartFetchRun(TwoFeedSources, TRUE)
    \/ BeginFeed
    \/ pc = "fetch" /\ \E response \in {[kind |-> "timeout", body |-> <<>>],
                                        [kind |-> "body", body |-> <<"<rss">>]} :
                          FetchFeed(response)
    \/ pc = "parse" /\ ProcessFeed([parseOk |-> TRUE, parsed |-> input.arg.feed,
                                     dbOk |-> TRUE, oks |-> input.arg.oks])
    \/ FinishFetchRun

SpecFeed == InitFeed /\ [][NextFeed]_vars

(***************************************************************************)
(* A download run and a fetch run as two processes on one store.  The      *)
(* download run is the one of the actions above, with `pc` its position;   *)
(* the fetch run processes the feed at "u1", statement by statement, with  *)
(* `fetchPc` its position.  A step is one statement of one of the two.     *)
(* `input` holds the feed the fetch run meets and the episodes the store   *)
(* holds before the two start.  The tables are scaled down as above.       *)
(***************************************************************************)
InitConcurrent ==
    /\ InitControl
    /\ tenants = {DefaultTenant}
    /\ objects = {}
    /\ tempFiles = {}
    /\ bucketExists = TRUE
    /\ \E before \in PendingFeeds, feed \in SiblingFeeds :
          /\ podcasts = PodcastsAfterFetch(before)
          /\ episodes = EpisodesAfterFetch(before)
          /\ input = [fn |-> "main",
                      arg |-> [feed |-> feed, episodes |-> EpisodesAfterFetch(before)]]
    /\ output = NoOutput

\* main in download mode, once.
StartDownloadProcess ==
    /\ pc = "idle"
    /\ run = 0
    /\ run' = 1
    /\ initializeDownloadRun(TRUE, FALSE, TRUE)

\* main in fetch mode, up to the first store statement of processRssFeed:
\* the response is there and parsed.
StartFetchProcess ==
    /\ fetchPc = "off"
    /\ fetchPc' = "podcast"
    /\ itemIdx' = 0
    /\ tenants' = connect(tenants, TRUE).tenants
    /\ UNCHANGED <<podcasts, episodes, storageVars, runVars, pc, fetchVars, retryVars,
                   dlVars, constraintHit, ioVars>>

\* const podcast = await this.insertOrUpdatePodcast(feed, rssUrl)
UpsertPodcastStatement ==
    /\ fetchPc = "podcast"
    /\ podcasts' = insertOrUpdatePodcast(podcasts, input.arg.feed, <<"u1">>)
    /\ fetchPc' = "select"
    /\ itemIdx' = 1
    /\ UNCHANGED <<tenants, episodes, storageVars, runVars, pc, fetchVars, retryVars,
                   dlVars, constraintHit, ioVars>>

\* insertEpisodeIfNotExists: the select by guid, and the return when a row
\* is found.
SelectEpisodeStatement ==
    /\ fetchPc = "select"
    /\ itemIdx <= Len(input.arg.feed.items)
    /\ LET podcastId == upsertedPodcast(podcasts, input.arg.feed, <<"u1">>).id
           guid == episodeGuid(podcastId, input.arg.feed.items[itemIdx])
           existingEpisode == {r \in episodes : r.guid = guid}
       IN  IF existingEpisode # {}
           THEN /\ itemIdx' = itemIdx + 1
                /\ UNCHANGED fetchPc
           ELSE /\ fetchPc' = "insert"
                /\ UNCHANGED itemIdx
    /\ UNCHANGED <<dbVars, storageVars, runVars, pc, fetchVars, retryVars, dlVars,
                   constraintHit, ioVars>>

\* insertEpisodeIfNotExists: the insert, refused by the unique index on guid
\* when a row with the key is there by now; the loop's catch logs that.
InsertEpisodeStatement ==
    /\ fetchPc = "insert"
    /\ LET podcastId == upsertedPodcast(podcasts, input.arg.feed, <<"u1">>).id
           after == episodes
                      \cup {episodeData(episodes, podcastId, input.arg.feed.items[itemIdx])}
       IN  /\ episodes' = IF UniqueGuid(after) THEN after ELSE episodes
           /\ constraintHit' = (constraintHit \/ ~UniqueGuid(after))
    /\ fetchPc' = "select"
    /\ itemIdx' = itemIdx + 1
    /\ UNCHANGED <<tenants, podcasts, storageVars, runVars, pc, fetchVars, retryVars,
                   dlVars, ioVars>>

\* The loop over feed.items is over: processRssFeed returns, and so does the
\* run.
FinishFetchProcess ==
    /\ fetchPc = "select"
    /\ itemIdx > Len(input.arg.feed.items)
    /\ fetchPc' = "done"
    /\ UNCHANGED <<dbVars, storageVars, runVars, pc, fetchVars, retryVars, dlVars,
                   constraintHit, ioVars, itemIdx>>

NextConcurrent ==
    \/ StartDownloadProcess
    \/ pc = "list" /\ \E listing \in selectUndownloaded(episodes, ScaledLimit) :
                        ListPending(listing)
    \/ BeginEpisode
    \/ pc = "dl_attempt" /\ DownloadAttempt(AllGoesThrough)
    \/ pc = "dl_failed" /\ MarkFailed(TRUE)
    \/ FinishDownloadRun
    \/ StartFetchProcess
    \/ UpsertPodcastStatement
    \/ SelectEpisodeStatement
    \/ InsertEpisodeStatement
    \/ FinishFetchProcess

SpecConcurrent == InitConcurrent /\ [][NextConcurrent]_vars

(***************************************************************************)
(* Properties of the storage bootstrap, the staged files, the listing and  *)
(* the waits of the retry loops, checked under Spec.                       *)
(***************************************************************************)
Downloading == pc \in {"list", "dl_loop", "dl_attempt", "dl_failed"}

\* C14: while a download run lists or downloads, the bucket exists; the
\* start of a download run changes no episode, podcast or stored object,
\* never removes the bucket, and when it fails (the existence check fails
\* otherwise than with not-found, or the creation fails) the run is aborted
\* with nothing listed and nothing tried, and the bucket is as it was.
C14_BootstrapBeforeDownloads ==
    /\ [](Downloading => bucketExists)
    /\ [][(mode' = "download" /\ run' # run) =>
             /\ episodes' = episodes /\ podcasts' = podcasts /\ objects' = objects
             /\ bucketExists => bucketExists'
             /\ fatal' = "" => bucketExists' /\ outcome' = "running" /\ pc' = "list"
             /\ fatal' # "" =>
                   /\ outcome' = "aborted" /\ pc' = "idle"
                   /\ pendingList' = <<>> /\ dlLog' = <<>>
                   /\ successCount' = 0 /\ failureCount' = 0
                   /\ bucketExists' = bucketExists]_vars

\* C14 witness: a download run aborted by the storage bootstrap while an
\* episode was waiting to be downloaded.
C14_AbortedWithPendingReached ==
    /\ mode = "download"
    /\ fatal = "StorageUnavailable"
    /\ outcome = "aborted"
    /\ \E r \in episodes : ~r.downloadSuccess /\ r.enclosureUrl # <<>>

\* C15 as stated, for an attempt whose staging fails: the attempt leaves no
\* staged file behind that was not there before it.
C15_FailedStagingLeavesNoFile ==
    [][(pc = "dl_attempt" /\ lastError' = "StageFailed") => tempFiles' \subseteq tempFiles]_vars

\* C18 as stated, for the episodes marked failed: once a download run is
\* over, no listing of the pending episodes holds an episode that the run
\* marked failed.
C18_FailedNeverListed ==
    DownloadRunOver =>
        \A k \in 1..Len(dlLog) :
            (dlLog[k].result = "failure" /\ dlLog[k].recorded) =>
                \A listing \in getUndownloadedEpisodes(episodes) :
                    \A j \in 1..Len(listing) : listing[j].id # dlLog[k].id

InRetryLoop == pc \in {"fetch", "parse", "dl_attempt"}

AttemptErrors == {"DownloadFailed", "StageFailed", "UploadFailed", "DbError"}

\* C22: an episode with an enclosure URL is tried in attempts numbered 1 to
\* maxRetries, each of which issues one GET.  An attempt ends the loop only
\* when the download, the staging, the upload and the state update have all
\* gone through: the object is stored and the row is marked downloaded with
\* its path.  Every other attempt changes no row and, whichever step
\* failed, is followed by attempt number + 1, which downloads again, or,
\* when it was the last one, by the failure of the episode.
C22_AtMostThreeDownloads ==
    /\ [](pc = "dl_attempt" =>
             /\ attempt \in 1..maxRetries
             /\ pendingList[epIdx].enclosureUrl # <<>>)
    /\ [][pc = "dl_attempt" =>
             LET episode == pendingList[epIdx]
             IN  \/ /\ pc' = "dl_loop"
                    /\ epIdx' = epIdx + 1
                    /\ successCount' = successCount + 1
                    /\ filename(episode) \in objects'
                    /\ \E r \in episodes' :
                          /\ r.id = episode.id
                          /\ r.downloadSuccess
                          /\ r.minioPath = filename(episode)
                 \/ /\ pc' = "dl_attempt"
                    /\ attempt < maxRetries
                    /\ attempt' = attempt + 1
                    /\ epIdx' = epIdx
                    /\ lastError' \in AttemptErrors
                    /\ episodes' = episodes
                 \/ /\ pc' = "dl_failed"
                    /\ attempt = maxRetries
                    /\ lastError' \in AttemptErrors
                    /\ episodes' = episodes]_vars

\* C22 witness: the third attempt for an episode is about to download again
\* after an attempt that uploaded the file and failed to update the row.
C22_ThirdAttemptAfterDbErrorReached ==
    /\ pc = "dl_attempt"
    /\ attempt = maxRetries
    /\ lastError = "DbError"
    /\ filename(pendingList[epIdx]) \in objects
    /\ \E r \in episodes : r.id = pendingList[epIdx].id /\ ~r.downloadSuccess

InFeedCall == pc \in {"fetch", "parse"}

\* C27: a step of a processRssFeed call that does not return (an attempt
\* that fails on the request, the content check, the parser or the podcast
\* write, the last of them throwing) changes no row of podcasts or episodes;
\* the returning step leaves exactly one row with the URL of the call and
\* changes no row of another URL.
C27_FailedAttemptChangesNoRow ==
    [][InFeedCall =>
          /\ lastCall'.result # "returned" => podcasts' = podcasts /\ episodes' = episodes
          /\ lastCall'.result = "returned" =>
                /\ Cardinality({r \in podcasts' : r.rssUrl = lastCall'.url}) = 1
                /\ \A r \in podcasts : r.rssUrl # lastCall'.url => r \in podcasts'
                /\ \A r \in podcasts' : r.rssUrl # lastCall'.url => r \in podcasts]_vars

\* C27 witness: the second attempt of a call has failed on the podcast
\* write, for a URL that has a row already.
C27_FailedPodcastWriteReached ==
    /\ pc = "fetch"
    /\ last.n = 2
    /\ last.error = "DbError"
    /\ \E r \in podcasts : r.rssUrl = rssUrls[urlIdx]

(***************************************************************************)
(* Properties of the collector and of the bootstrap, checked under         *)
(* SpecStart.                                                              *)
(***************************************************************************)
Elements(s) == {s[k] : k \in 1..Len(s)}

\* The nodes of an outline value, at every depth.
RECURSIVE NodesOf(_)
NodesOf(outlines) ==
    UNION {{outlines.nodes[k]} \cup NodesOf(outlines.nodes[k].outline) :
             k \in 1..Len(outlines.nodes)}

NonBlank(str) == \E k \in 1..Len(str) : str[k] \notin {"ws", "bom"}

\* A line of the text source that holds a URL: it is not blank and the first
\* thing on it is not the comment mark.
IsUrlLine(line) ==
    \E k \in 1..Len(line) :
        /\ line[k] \notin {"ws", "bom", "#"}
        /\ \A j \in 1..(k - 1) : line[j] \in {"ws", "bom"}

\* The sources hold at least one URL: on a line of a readable text source or
\* on a node of an OPML source that could be read and parsed.
HoldsUrl(sources) ==
    \/ /\ sources.txt.readable
       /\ \E k \in 1..Len(sources.txt.lines) : IsUrlLine(sources.txt.lines[k])
    \/ \E f \in 1..Len(sources.opml) :
          /\ sources.opml[f].status = "ok"
          /\ \E n \in NodesOf(sources.opml[f].outline) : NonBlank(n.xmlUrl)

FetchStarted == mode = "fetch" /\ fatal # "DatabaseUnavailable"

\* C11: when the sources hold no URL at all, the start of a fetch run fails
\* with NoFeedSourcesFound, the run aborts and has no URL to fetch; when
\* they hold at least one URL, the collection succeeds and the run goes on
\* to its loop, whatever sources are unreadable, absent or malformed.
C11_NoSourcesAbortsRun ==
    FetchStarted =>
        /\ (fatal = "NoFeedSourcesFound") <=> ~HoldsUrl(input.arg)
        /\ fatal = "NoFeedSourcesFound" =>
               outcome = "aborted" /\ pc = "idle" /\ rssUrls = <<>> /\ feedLog = <<>>
        /\ HoldsUrl(input.arg) =>
               fatal = "" /\ outcome = "running" /\ pc = "feed_loop" /\ rssUrls # <<>>

\* C11 witnesses: a run aborted although a text source with lines and a
\* parsed OPML source were there.
C11_AbortedWithSourcesReached ==
    /\ FetchStarted
    /\ fatal = "NoFeedSourcesFound"
    /\ input.arg.txt.readable /\ input.arg.txt.lines # <<>>
    /\ \E f \in 1..Len(input.arg.opml) : input.arg.opml[f].status = "ok"

\* The lines of the text source that are kept, trimmed.
KeptLines(txt) ==
    LET trimmed == [k \in 1..Len(txt.lines) |-> Trim(txt.lines[k])]
    IN  IF txt.readable
        THEN SelectSeq(trimmed, LAMBDA l : l # <<>> /\ l[1] # "#")
        ELSE <<>>

Concatenation(sources) ==
    KeptLines(sources.txt) \o parseOpmlFile(sources.opml[1])
        \o parseOpmlFile(sources.opml[2]) \o parseOpmlFile(sources.opml[3])
        \o parseOpmlFile(sources.opml[4])

RECURSIVE FirstOccurrences(_)
FirstOccurrences(s) ==
    IF s = <<>> THEN <<>>
    ELSE LET before == FirstOccurrences(SubSeq(s, 1, Len(s) - 1))
         IN  IF s[Len(s)] \in Elements(before) THEN before ELSE Append(before, s[Len(s)])

OpmlUrls(sources) ==
    UNION {Elements(parseOpmlFile(sources.opml[f])) : f \in 1..Len(sources.opml)}

Collected == FetchStarted /\ fatal = ""

\* C12: the collected URLs are the first occurrences, by exact comparison,
\* in the concatenation of the kept lines of the text source and the URLs of
\* the four OPML sources in their order; there is no duplicate and no blank
\* entry among them, and an entry that begins with "#" is a URL of an OPML
\* source, never a line of the text source.
C12_CollectedIsDedupedConcatenation ==
    Collected =>
        /\ rssUrls = FirstOccurrences(Concatenation(input.arg))
        /\ NoDup(rssUrls)
        /\ \A k \in 1..Len(rssUrls) : NonBlank(rssUrls[k])
        /\ \A k \in 1..Len(rssUrls) :
              rssUrls[k][1] = "#" =>
                 /\ rssUrls[k] \in OpmlUrls(input.arg)
                 /\ rssUrls[k] \notin Elements(KeptLines(input.arg.txt))

\* C12 as stated: the deduplicated concatenation has no entry that begins
\* with "#".
C12_NoCommentEntryCollected ==
    Collected =>
        /\ rssUrls = FirstOccurrences(Concatenation(input.arg))
        /\ NoDup(rssUrls)
        /\ \A k \in 1..Len(rssUrls) : NonBlank(rssUrls[k]) /\ rssUrls[k][1] # "#"

\* C12 witness: lines and OPML URLs were collected, a repeated URL was
\* dropped and a URL that begins with "#" was kept.
C12_CommentLikeUrlCollectedReached ==
    /\ Collected
    /\ KeptLines(input.arg.txt) # <<>>
    /\ Len(rssUrls) < Len(Concatenation(input.arg))
    /\ \E k \in 1..Len(rssUrls) : rssUrls[k][1] = "#"

\* C17: a step never changes or removes a tenant row; the only row a step
\* adds is the default tenant, and only when no row has its id; and once
\* connect has gone through, exactly one row has that id.
C17_DefaultTenantBootstrapIdempotent ==
    [][/\ \A r \in tenants : r \in tenants'
       /\ tenants' # tenants =>
             /\ ~\E r \in tenants : r.id = defaultTenantId
             /\ tenants' = tenants \cup {DefaultTenant}
       /\ (run' # run /\ fatal' # "DatabaseUnavailable") =>
             Cardinality({r \in tenants' : r.id = defaultTenantId}) = 1]_vars

\* C17 witness: a second run has connected to a table that held the
\* default tenant under another name, and the row is as it was.
C17_ExistingDefaultKeptReached ==
    /\ run >= 2
    /\ fatal \notin {"", "DatabaseUnavailable"}
    /\ RenamedDefaultTenant \in tenants
    /\ OtherTenant \in tenants

(***************************************************************************)
(* Properties of the functions, checked under SpecFunctions.               *)
(***************************************************************************)
Walked == output.done /\ input.fn = "extractUrlsFromOutlines"

\* The position of the node that carries the URL, and the order in which a
\* depth-first walk that takes a node before its children meets two
\* positions: a node before everything below it, and otherwise the lower
\* sibling number first at the first level where the positions differ.
PositionOf(url) == [k \in 1..(Len(url) - 1) |-> CHOOSE d \in 1..Len(Digits) : Digits[d] = url[k + 1]]

PreOrderBefore(p, q) ==
    \/ Len(p) < Len(q) /\ SubSeq(q, 1, Len(p)) = p
    \/ \E k \in 1..Min(Len(p), Len(q)) :
          /\ \A j \in 1..(k - 1) : p[j] = q[j]
          /\ p[k] < q[k]

\* C13: the walker's output holds the URL of every node of the tree that
\* has a non-blank xmlUrl, each once, in depth-first pre-order; nodes
\* without one add nothing, and what is below them is still collected.
C13_WalkerCollectsInPreOrder ==
    Walked =>
        LET bearing == {n \in NodesOf(input.arg) : NonBlank(n.xmlUrl)}
        IN  /\ Elements(output.value) = {n.xmlUrl : n \in bearing}
            /\ Len(output.value) = Cardinality(bearing)
            /\ \A i, j \in 1..Len(output.value) :
                  i < j => PreOrderBefore(PositionOf(output.value[i]),
                                          PositionOf(output.value[j]))

\* C13 witness: a walk over a list of two nodes, the first with a URL and a
\* child with a URL, the second without a URL and a child with a URL.
C13_NestedUrlsWalkedReached ==
    /\ Walked
    /\ input.arg.isArray
    /\ output.value = <<UrlAt(<<1>>), UrlAt(<<1, 1>>), UrlAt(<<2, 1>>)>>
    /\ input.arg.nodes[2].xmlUrl = <<>>

Upserted == output.done /\ input.fn = "insertOrUpdatePodcast"

\* C16 as stated: the row that had the feed URL before the upsert is in the
\* table after it with the same id, feed URL and tenant.
C16_UpdateKeepsIdentityAndTenant ==
    Upserted =>
        \A old \in input.arg.rows :
            old.rssUrl = input.arg.rssUrl =>
                \E new \in output.value :
                    /\ new.id = old.id
                    /\ new.rssUrl = old.rssUrl
                    /\ new.tenantId = old.tenantId

\* The extension the URL's path ends with: the path is what comes before the
\* query and the fragment, and its extension what follows its last ".".
PathExtension(url) ==
    LET marks == {k \in 1..Len(url) : url[k] \in {"?", "#"}}
        path == IF marks = {} THEN url
                ELSE SubSeq(url, 1, (CHOOSE k \in marks : \A j \in marks : k <= j) - 1)
        dots == {k \in 1..Len(path) : path[k] = "."}
    IN  IF dots = {} THEN <<>>
        ELSE SubSeq(path, (CHOOSE k \in dots : \A j \in dots : j <= k) + 1, Len(path))

MimeExtension(contentType) ==
    CASE contentType = "audio/mpeg" -> "mp3"
      [] contentType \in {"audio/mp4", "audio/m4a"} -> "m4a"
      [] contentType = "audio/wav" -> "wav"
      [] contentType = "audio/flac" -> "flac"
      [] contentType = "audio/ogg" -> "ogg"
      [] OTHER -> ""

Determined == output.done /\ input.fn = "determineFileExtension"

\* C19 as stated: the extension is the one the URL's path ends with when
\* that is one of the five known ones, else the one the MIME type maps to,
\* else mp3.
C19_ExtensionFromPathThenMime ==
    Determined =>
        LET ext == PathExtension(input.arg.url)
            mime == MimeExtension(input.arg.contentType)
        IN  output.value =
               (IF Len(ext) = 1 /\ ext[1] \in {"mp3", "m4a", "wav", "flac", "ogg"}
                THEN ext[1]
                ELSE IF mime # "" THEN mime ELSE "mp3")

(***************************************************************************)
(* Properties of the content check and of the two mappings.                *)
(***************************************************************************)
\* The trimmed body starts with the XML declaration in either letter case,
\* or with `<rss`, or with `<feed`.
StartsWithXmlAnyCaseDeclaration(body) ==
    \E k \in 1..Len(body) :
       /\ body[k] \in {"<?xml", "<?XML", "<rss", "<feed"}
       /\ \A j \in 1..(k - 1) : body[j] \in {"ws", "bom"}

\* C25 as stated, checked under Spec: a body is passed on to the parser if
\* its trimmed text starts with the XML declaration in any letter case, with
\* `<rss` or with `<feed`, and every other body fails the attempt with the
\* content error, which carries the body.
C25_DeclarationAcceptedInAnyCase ==
    [][pc = "fetch" =>
          /\ (pc' = "parse" => StartsWithXmlAnyCaseDeclaration(text'))
          /\ (last'.error = "InvalidFeedContent" /\ last' # last) =>
                ~StartsWithXmlAnyCaseDeclaration(last'.refused)]_vars

MimeTable == {"audio/mpeg", "audio/mp4", "audio/m4a", "audio/wav", "audio/flac", "audio/ogg"}

NoExtension(url) == \A k \in 1..Len(url) : url[k] # "."

ContentTyped == output.done /\ input.fn = "determineContentTypeFromPath"

\* C26, checked under SpecFunctions: for each of the five extensions the
\* content type of a path with that extension maps back to the extension;
\* for each MIME type of the fallback table but audio/m4a, the extension it
\* gives to a URL without one has that MIME type as its content type; and
\* audio/m4a, which shares the extension m4a with audio/mp4, comes back as
\* audio/mp4.
C26_MappingsInverseButForM4a ==
    /\ (ContentTyped /\ Len(input.arg) = 2 /\ input.arg[2] \in {"mp3", "m4a", "wav", "flac", "ogg"}) =>
          determineFileExtension(<<"http://h/a">>, output.value) = input.arg[2]
    /\ (Determined /\ NoExtension(input.arg.url) /\ input.arg.contentType \in MimeTable) =>
          determineContentTypeFromPath(<<"tmp/e1", output.value>>) =
             (IF input.arg.contentType = "audio/m4a" THEN "audio/mp4"
              ELSE input.arg.contentType)

\* C26 as stated: every MIME type of the fallback table is the content type
\* of the extension it maps to.
C26_EveryMimeTypeComesBack ==
    (Determined /\ NoExtension(input.arg.url) /\ input.arg.contentType \in MimeTable) =>
        determineContentTypeFromPath(<<"tmp/e1", output.value>>) = input.arg.contentType

\* C26 witness: audio/m4a has given the extension m4a to a URL without one.
C26_M4aMappedReached ==
    /\ Determined
    /\ input.arg.url = <<"http://h/a">>
    /\ input.arg.contentType = "audio/m4a"
    /\ output.value = "m4a"

(***************************************************************************)
(* Properties of repeated download runs, checked under SpecDrain.          *)
(***************************************************************************)
\* C21 as stated: across repeated download runs every episode with an
\* enclosure, whose download and upload go through when it is tried, is
\* eventually marked downloaded, whatever else is pending.
C21_PendingEventuallyDownloaded ==
    <>(\A r \in episodes : r.enclosureUrl # <<>> => r.downloadSuccess)

(***************************************************************************)
(* Properties of the item loop and of the episode key, checked under       *)
(* SpecFeed.                                                               *)
(***************************************************************************)
\* The key of an item of the podcast with identifier pid.
KeyOfItem(pid, item) ==
    IF item.guid # "" THEN <<item.guid>>
    ELSE IF item.link # "" THEN <<item.link>>
    ELSE <<pid, "_", item.title>>

HasKey(rows, key) == \E r \in rows : r.guid = key

\* C23: once the feed is parsed and the podcast written, the call returns in
\* the same attempt whatever items fail: the podcast row of the URL is in
\* the table with the feed's title, every item whose statements run without
\* an error has its key in the table, before or after a failing item alike,
\* and a failing item adds no row.
C23_ItemFailureIsLocal ==
    [][pc = "parse" =>
          LET items == input.arg.feed.items
              oks == input.arg.oks
              url == rssUrls[urlIdx]
          IN  /\ lastCall'.result = "returned"
              /\ lastCall'.attempts = attempt
              /\ pc' = "feed_loop"
              /\ feedLog' = Append(feedLog, [url |-> url, result |-> "ok"])
              /\ \E p \in podcasts' :
                    /\ p.rssUrl = url
                    /\ p.title = input.arg.feed.meta.title
                    /\ \A k \in 1..Len(items) :
                          /\ oks[k] => HasKey(episodes', KeyOfItem(p.id, items[k]))
                          /\ (/\ ~HasKey(episodes, KeyOfItem(p.id, items[k]))
                              /\ \A j \in 1..Len(items) :
                                    KeyOfItem(p.id, items[j]) = KeyOfItem(p.id, items[k])
                                       => ~oks[j])
                                => ~HasKey(episodes', KeyOfItem(p.id, items[k]))]_vars

\* C23 witness: a call has returned for a feed of three items whose second
\* item failed: the first and the third are in the table, the second is not.
C23_SiblingsOfFailedItemInsertedReached ==
    /\ lastCall.result = "returned"
    /\ input.arg.oks = <<TRUE, FALSE, TRUE>>
    /\ input.arg.feed.items[2].guid = "g2"
    /\ Cardinality(episodes) = 2
    /\ ~HasKey(episodes, <<"g2">>)

\* C24: no two episode rows have the same key, whatever their podcasts; the
\* podcast of every row is one row of podcasts and the row's key is the key
\* of an item of the feed for that podcast (its GUID, else its link, else
\* the podcast's identifier, "_" and the title); and no step changes or
\* removes an episode row, so an item whose key is that of a row of another
\* podcast adds no row and leaves that row with its podcast.
C24_EpisodeKeyIsGlobal ==
    /\ [](/\ \A a, b \in episodes : a.guid = b.guid => a = b
          /\ \A r \in episodes :
                /\ Cardinality({p \in podcasts : p.id = r.podcastId}) = 1
                /\ \E k \in 1..Len(input.arg.feed.items) :
                      r.guid = KeyOfItem(r.podcastId, input.arg.feed.items[k]))
    /\ [][/\ \A r \in episodes : r \in episodes'
           /\ \A n \in episodes' \ episodes : ~HasKey(episodes, n.guid)]_vars

\* C24 witness: the feed of the second URL has been processed, one of its
\* items has the key of an episode of the first podcast, and the episode is
\* still the only row with that key and still of the first podcast.
C24_KeyOfOtherPodcastMatchedReached ==
    /\ lastCall.result = "returned"
    /\ lastCall.url = <<"u2">>
    /\ <<"g1">> \in lastCall.matched
    /\ \E r \in episodes, p \in podcasts :
          r.guid = <<"g1">> /\ p.id = r.podcastId /\ p.rssUrl = <<"u1">>

(***************************************************************************)
(* Properties of a download run and a fetch run on one store, checked      *)
(* under SpecConcurrent.                                                   *)
(***************************************************************************)
BothRunsOver == DownloadRunOver /\ fetchPc = "done"

\* What a download run on its own leaves as the download state of row r
\* when its listing is `listing` and every transfer goes through.
StateLeftAlone(r, listing) ==
    IF (\E k \in 1..Len(listing) : listing[k] = r) /\ r.enclosureUrl # <<>>
    THEN <<TRUE, Now, filename(r)>>
    ELSE downloadState(r)

\* C28: when both runs are over, every episode the store held before them
\* is in the download state (flag, timestamp, path) that the download run
\* on its own, on the store as it was, leaves it in with one of the listings
\* it can get.
C28_DownloadStateAsIfAlone ==
    BothRunsOver =>
        \A r \in input.arg.episodes :
            \E listing \in selectUndownloaded(input.arg.episodes, ScaledLimit) :
                \E x \in episodes :
                    x.id = r.id /\ downloadState(x) = StateLeftAlone(r, listing)

=============================================================================
